---------------------------- MODULE Spec2Model ----------------------------
(***************************************************************************)
(* Model of src/Logger.ts: the leveled logger of denomail-logger.          *)
(*                                                                         *)
(* State: the static Logger.minimum, the constructed Logger instances      *)
(* (_level, _prefix, _ostream), the calls made so far (the arguments, the  *)
(* locals l and writer, and the promises of each log / wrapper             *)
(* invocation) and, per sink, the lines handed to its write().             *)
(*                                                                         *)
(* JavaScript runs one task at a time: the body of an async function runs  *)
(* without interruption up to its first await.  Log and Wrapper are that   *)
(* synchronous part; the settling of the write and of the promises are     *)
(* separate steps that interleave with every other action.                 *)
(***************************************************************************)
EXTENDS Integers, Sequences, FiniteSets, TLC

\* enum LoggerLevel { Trace, Info, Warn, Error, Fatal }
Trace == 0
Info == 1
Warn == 2
Error == 3
Fatal == 4
LoggerLevel == {Trace, Info, Warn, Error, Fatal}

\* LoggerLevel[l]: the reverse mapping of the numeric enum.
LevelName(l) ==
    CASE l = Trace -> "Trace"
      [] l = Info  -> "Info"
      [] l = Warn  -> "Warn"
      [] l = Error -> "Error"
      [] l = Fatal -> "Fatal"
      [] OTHER     -> "undefined"

\* An omitted optional argument (l?: LoggerLevel, level = ..., prefix = ...).
Undefined == -1
\* An omitted string / writer argument, and an unset _ostream.
NoArg == "undefined"

\* Bound of the model: the calls of log and of the wrappers the program makes.
MaxCalls == 1

\* The instances the program may construct, and the inputs of the calls.
LoggerIds == {"L"}
Prefixes == {"net"}
Messages == {"link down"}
Times == {"Wed, 01 Jan 2020 00:00:00 GMT"}
Streams == {NoArg, "file"}
Sinks == {"stdout", "stderr", "file"}
Failures == {"BrokenPipe"}
WrapperLevel == [trace |-> Trace, info |-> Info, warn |-> Warn,
                 error |-> Error, fatal |-> Fatal]
Wrappers == DOMAIN WrapperLevel

VARIABLES minimum, loggers, calls, sinks

vars == <<minimum, loggers, calls, sinks>>

----------------------------------------------------------------------------
(* Pure parts of the code. *)

logger_level_color(l) ==
    CASE l = Trace -> "green"
      [] l = Info  -> "brightBlue"
      [] l = Warn  -> "yellow"
      [] l = Error -> "red"
      [] l = Fatal -> "brightRed"
      [] OTHER     -> "white"

\* The fields the constructor assigns, with the parameter defaults.
NewLogger(level, prefix, ostream) ==
    [_level   |-> IF level = Undefined THEN Info ELSE level,
     _prefix  |-> IF prefix = NoArg THEN "None" ELSE prefix,
     _ostream |-> ostream]

\* if (!l) { l = this._level; }   -- !l holds of undefined and of 0.
ResolveLevel(arg, level) ==
    IF arg = Undefined \/ arg = 0 THEN level ELSE arg

\* Mutants of the threshold test: >= for >, and the operands exchanged.
SuppressedAtOrAbove(min, l) == min >= l
SuppressedReversed(min, l) == l > min

\* if (Logger.minimum > l) { return; }
Suppressed(min, l) == min > l

\* Mutant: Warn routed like Error and Fatal.
SelectWriterWarnAsError(ostream, l) ==
    IF l >= Warn THEN "stderr" ELSE "stdout"

\* if (this._ostream) { writer = this._ostream; }
\* if (l === Fatal || l === Error) { writer = stderr; } else { writer = stdout; }
\* The second if is not an else-if: it always assigns.
SelectWriter(ostream, l) ==
    LET first  == IF ostream # NoArg THEN ostream ELSE NoArg
        second == IF l = Fatal \/ l = Error THEN "stderr" ELSE "stdout"
    IN  second

\* `${date} : (${color(`${LoggerLevel[l]}@${this.prefix}`)}) >> ${m}\n`
FormatLine(now, l, prefix, m) ==
    [time  |-> now,
     color |-> logger_level_color(l),
     tag   |-> LevelName(l) \o "@" \o prefix,
     m     |-> m]

NoLine == [time |-> "", color |-> "", tag |-> "", m |-> ""]

----------------------------------------------------------------------------
Init ==
    /\ minimum = Trace
    /\ loggers = <<>>
    /\ calls = <<>>
    /\ sinks = [s \in Sinks |-> <<>>]

\* new Logger(level?, prefix?, ostream?)
Construct(i, level, prefix, ostream) ==
    /\ i \notin DOMAIN loggers
    /\ loggers' = loggers @@ (i :> NewLogger(level, prefix, ostream))
    /\ UNCHANGED <<minimum, calls, sinks>>

\* set level(l)
SetLevel(i, l) ==
    /\ i \in DOMAIN loggers
    /\ loggers' = [loggers EXCEPT ![i]._level = l]
    /\ UNCHANGED <<minimum, calls, sinks>>

\* Mutant: raising the minimum also drops the pending writes below it.
SetMinimumRetroactive(l) ==
    /\ minimum' = l
    /\ calls' = [k \in DOMAIN calls |->
                    IF calls[k].write = "pending" /\ l > calls[k].l
                    THEN [calls[k] EXCEPT !.write = "none", !.logP = "fulfilled"]
                    ELSE calls[k]]
    /\ UNCHANGED <<loggers, sinks>>

\* Logger.minimum = l
SetMinimum(l) ==
    /\ minimum' = l
    /\ UNCHANGED <<loggers, calls, sinks>>

\* The synchronous part of log(m, arg), up to the await of writer.write:
\* the call's locals and promises, and the line handed to the writer.
\* via is "log" for a direct call, else the wrapper awaiting it.
LogCall(i, via, m, arg, now) ==
    LET this   == loggers[i]
        l      == ResolveLevel(arg, this._level)
        quiet  == Suppressed(minimum, l)
        writer == SelectWriter(this._ostream, l)
        line   == FormatLine(now, l, this._prefix, m)
    IN  [logger |-> i, via |-> via, m |-> m, arg |-> arg,
         l |-> l,
         writer |-> IF quiet THEN NoArg ELSE writer,
         line |-> IF quiet THEN NoLine ELSE line,
         write |-> IF quiet THEN "none" ELSE "pending",
         logP |-> IF quiet THEN "fulfilled" ELSE "pending",
         wrapP |-> IF via = "log" THEN "none" ELSE "pending",
         err |-> "none", logErr |-> "none", wrapErr |-> "none"]

\* What the call hands to the sinks: one write() on the selected writer.
SinksAfter(c, id) ==
    IF c.write = "pending"
    THEN [sinks EXCEPT ![c.writer] = Append(@, [by |-> id, line |-> c.line])]
    ELSE sinks

\* Mutant: the resolved level is stored back (this._level = l).
LoggersAfterAssignsLevel(c) == [loggers EXCEPT ![c.logger]._level = c.l]

\* What the call leaves of the instances and of Logger.minimum: log assigns
\* only its parameter l, never a field.
LoggersAfter(c) == loggers
MinimumAfter(c) == minimum

Invoke(i, via, m, arg, now) ==
    /\ i \in DOMAIN loggers
    /\ Len(calls) < MaxCalls
    /\ LET c == LogCall(i, via, m, arg, now)
       IN  /\ calls' = Append(calls, c)
           /\ sinks' = SinksAfter(c, Len(calls) + 1)
           /\ loggers' = LoggersAfter(c)
           /\ minimum' = MinimumAfter(c)

\* log(m, l?)
Log(i, m, arg, now) == Invoke(i, "log", m, arg, now)

\* trace(m), info(m), warn(m), error(m), fatal(m): await this.log(m, <level>)
Wrapper(i, w, m, now) == Invoke(i, w, m, WrapperLevel[w], now)

\* The sink settles the promise of the pending write.
WriteSettles(k, outcome) ==
    /\ k \in DOMAIN calls
    /\ calls[k].write = "pending"
    /\ calls' = [calls EXCEPT ![k].write = IF outcome = "ok" THEN "ok" ELSE "failed",
                              ![k].err = IF outcome = "ok" THEN "none" ELSE outcome]
    /\ UNCHANGED <<minimum, loggers, sinks>>

\* log resumes after its await: it returns, or the rejection propagates.
LogPromise(c) ==
    IF c.write = "failed"
    THEN [c EXCEPT !.logP = "rejected", !.logErr = c.err]
    ELSE [c EXCEPT !.logP = "fulfilled"]

LogSettles(k) ==
    /\ k \in DOMAIN calls
    /\ calls[k].logP = "pending"
    /\ calls[k].write \in {"ok", "failed"}
    /\ calls' = [calls EXCEPT ![k] = LogPromise(calls[k])]
    /\ UNCHANGED <<minimum, loggers, sinks>>

\* Mutant: the wrapper catches the rejection of log.
WrapperPromiseSwallows(c) == [c EXCEPT !.wrapP = "fulfilled"]

\* The wrapper resumes after await this.log(...).
WrapperPromise(c) ==
    IF c.logP = "rejected"
    THEN [c EXCEPT !.wrapP = "rejected", !.wrapErr = c.logErr]
    ELSE [c EXCEPT !.wrapP = "fulfilled"]

WrapperSettles(k) ==
    /\ k \in DOMAIN calls
    /\ calls[k].wrapP = "pending"
    /\ calls[k].logP \in {"fulfilled", "rejected"}
    /\ calls' = [calls EXCEPT ![k] = WrapperPromise(calls[k])]
    /\ UNCHANGED <<minimum, loggers, sinks>>

DoConstruct ==
    \E i \in LoggerIds, level \in LoggerLevel \cup {Undefined},
       prefix \in Prefixes, ostream \in Streams :
        Construct(i, level, prefix, ostream)
DoSetLevel == \E i \in LoggerIds, l \in LoggerLevel : SetLevel(i, l)
DoSetMinimum == \E l \in LoggerLevel : SetMinimum(l)
DoLog ==
    \E i \in LoggerIds, m \in Messages, arg \in LoggerLevel \cup {Undefined},
       now \in Times : Log(i, m, arg, now)
DoWrapper ==
    \E i \in LoggerIds, w \in Wrappers, m \in Messages, now \in Times :
        Wrapper(i, w, m, now)
DoWriteSettles ==
    \E k \in 1..MaxCalls, outcome \in {"ok"} \cup Failures : WriteSettles(k, outcome)
DoLogSettles == \E k \in 1..MaxCalls : LogSettles(k)
DoWrapperSettles == \E k \in 1..MaxCalls : WrapperSettles(k)

Next ==
    \/ DoConstruct
    \/ DoSetLevel
    \/ DoSetMinimum
    \/ DoLog
    \/ DoWrapper
    \/ DoWriteSettles
    \/ DoLogSettles
    \/ DoWrapperSettles

Spec == Init /\ [][Next]_vars

----------------------------------------------------------------------------
(* The claims.  A step that makes a call appends it to calls: the unprimed *)
(* minimum and loggers of that step are the values at the moment of the    *)
(* call, and the primed sinks hold what the call handed to write().        *)

NewCall == Len(calls') = Len(calls) + 1
TheCall == calls'[Len(calls')]
TheId == Len(calls')

\* The lines call k handed to sink s, and to all sinks, in the sinks ss.
LinesBy(ss, k, s) == Cardinality({n \in DOMAIN ss[s] : ss[s][n].by = k})
TotalBy(ss, k) ==
    LinesBy(ss, k, "stdout") + LinesBy(ss, k, "stderr") + LinesBy(ss, k, "file")
TheLine(ss, k, s) == ss[s][CHOOSE n \in DOMAIN ss[s] : ss[s][n].by = k].line

\* The effective level as specified: the override if one is given, Trace
\* included, else the instance's configured level.
EffectiveLevel(arg, level) == IF arg = Undefined THEN level ELSE arg

\* The sink as specified: the override, else stderr for Error and Fatal,
\* else stdout.
ResolvedSink(ostream, l) ==
    IF ostream # NoArg THEN ostream
    ELSE IF l \in {Error, Fatal} THEN "stderr" ELSE "stdout"

\* C1: a call log(message, levelOverride?) writes exactly one line if the
\* effective level (the override if given, Trace included, else the instance
\* level) is at least the global minimum at the moment of the call, and
\* writes nothing otherwise.
C1_EmitsIffEffectiveLevelAtLeastMinimum ==
    [][ (NewCall /\ TheCall.via = "log") =>
          LET eff == EffectiveLevel(TheCall.arg, loggers[TheCall.logger]._level)
          IN  TotalBy(sinks', TheId) = (IF eff >= minimum THEN 1 ELSE 0) ]_vars

\* C2: every non-suppressed call on an instance constructed with a sink
\* override writes its line to that override, and no call on such an
\* instance writes to stdout or stderr.
C2_OverrideSinkAlwaysUsed ==
    \A k \in DOMAIN calls :
        LET override == loggers[calls[k].logger]._ostream
        IN  override # NoArg =>
              /\ LinesBy(sinks, k, "stdout") = 0
              /\ LinesBy(sinks, k, "stderr") = 0
              /\ calls[k].write # "none" => LinesBy(sinks, k, override) = 1

\* C3: on an instance without a sink override, a non-suppressed call at
\* Error or Fatal (the override or the wrapper's level if given, else the
\* instance level) writes to stderr and not to stdout, and one at Trace,
\* Info or Warn writes to stdout and not to stderr.
C3_DefaultSinkBySeverity ==
    [][ (/\ NewCall
         /\ loggers[TheCall.logger]._ostream = NoArg
         /\ TheCall.write # "none") =>
          LET eff == EffectiveLevel(TheCall.arg, loggers[TheCall.logger]._level)
          IN  IF eff \in {Error, Fatal}
              THEN /\ LinesBy(sinks', TheId, "stderr") = 1
                   /\ LinesBy(sinks', TheId, "stdout") = 0
              ELSE /\ LinesBy(sinks', TheId, "stdout") = 1
                   /\ LinesBy(sinks', TheId, "stderr") = 0 ]_vars

\* C4: a wrapper call decides suppression, selects the sink and names the
\* level in the tag by the wrapper's fixed level, whatever the instance's
\* configured level is.
C4_WrapperUsesItsFixedLevel ==
    [][ (NewCall /\ TheCall.via \in Wrappers) =>
          LET fixed == WrapperLevel[TheCall.via]
              this  == loggers[TheCall.logger]
          IN  /\ (TheCall.write # "none") <=> (fixed >= minimum)
              /\ TheCall.write # "none" =>
                   /\ TheCall.writer = SelectWriter(this._ostream, fixed)
                   /\ TheCall.line.tag = LevelName(fixed) \o "@" \o this._prefix ]_vars

\* C5: log(message) without an override on a logger configured below the
\* global minimum writes nothing; on a logger configured at the minimum or
\* above it writes exactly one line.
C5_NoOverrideFollowsInstanceLevel ==
    [][ (NewCall /\ TheCall.via = "log" /\ TheCall.arg = Undefined) =>
          IF loggers[TheCall.logger]._level < minimum
          THEN TotalBy(sinks', TheId) = 0
          ELSE TotalBy(sinks', TheId) = 1 ]_vars

C5_Witness ==
    \E k \in DOMAIN calls :
        /\ calls[k].via = "log" /\ calls[k].arg = Undefined
        /\ minimum = Warn /\ loggers[calls[k].logger]._level = Warn
        /\ calls[k].l = Warn
        /\ TotalBy(sinks, k) = 1

\* C6: while the global minimum is Trace, every call of log and of a
\* wrapper, with or without an override, writes exactly one line.
C6_MinimumTraceSuppressesNothing ==
    [][ (NewCall /\ minimum = Trace) =>
          /\ TheCall.write = "pending"
          /\ TotalBy(sinks', TheId) = 1 ]_vars

C6_Witness ==
    \E k \in DOMAIN calls :
        /\ minimum = Trace
        /\ calls[k].via = "trace" /\ calls[k].l = Trace
        /\ loggers[calls[k].logger]._level = Trace
        /\ TotalBy(sinks, k) = 1

\* C7: a failed write rejects the promise of log, and of the wrapper that
\* awaits it, with the sink's failure; the write is handed to one sink once,
\* also after a failure; a suppressed call hands nothing to any sink and its
\* promises fulfil.
C7_WriteFailurePropagates ==
    \A k \in DOMAIN calls :
        LET c == calls[k]
        IN  /\ TotalBy(sinks, k) = (IF c.write = "none" THEN 0 ELSE 1)
            /\ c.write = "none" =>
                 /\ c.logP = "fulfilled"
                 /\ c.wrapP \in {"none", "pending", "fulfilled"}
            /\ c.write = "failed" =>
                 /\ c.err \in Failures
                 /\ c.logP \in {"pending", "rejected"}
                 /\ c.wrapP \in {"none", "pending", "rejected"}
            /\ c.logP = "rejected" => c.write = "failed" /\ c.logErr = c.err
            /\ c.wrapP = "rejected" => c.logP = "rejected" /\ c.wrapErr = c.err
            /\ c.write \in {"pending", "ok"} =>
                 c.logP # "rejected" /\ c.wrapP # "rejected"

C7_Witness ==
    \E k \in DOMAIN calls :
        /\ calls[k].via = "error"
        /\ calls[k].write = "failed" /\ calls[k].err = "BrokenPipe"
        /\ calls[k].logP = "rejected" /\ calls[k].logErr = "BrokenPipe"
        /\ calls[k].wrapP = "rejected" /\ calls[k].wrapErr = "BrokenPipe"
        /\ TotalBy(sinks, k) = 1

C9_WarnLineOnStderr ==
    [][ (/\ NewCall
         /\ TheCall.via = "warn" /\ TheCall.m = "link down"
         /\ loggers[TheCall.logger] = NewLogger(Warn, "net", NoArg)
         /\ minimum = Info) =>
          /\ TotalBy(sinks', TheId) = 1
          /\ LinesBy(sinks', TheId, "stderr") = 1
          /\ TheLine(sinks', TheId, "stderr").tag = "Warn@net"
          /\ TheLine(sinks', TheId, "stderr").m = "link down" ]_vars

\* C9 amended: the one line is written to stdout.
C9_WarnLineOnStdout ==
    [][ (/\ NewCall
         /\ TheCall.via = "warn" /\ TheCall.m = "link down"
         /\ loggers[TheCall.logger] = NewLogger(Warn, "net", NoArg)
         /\ minimum = Info) =>
          /\ TotalBy(sinks', TheId) = 1
          /\ LinesBy(sinks', TheId, "stdout") = 1
          /\ TheLine(sinks', TheId, "stdout").tag = "Warn@net"
          /\ TheLine(sinks', TheId, "stdout").m = "link down" ]_vars

C9_Witness ==
    \E k \in DOMAIN calls :
        /\ calls[k].via = "warn" /\ calls[k].m = "link down"
        /\ loggers[calls[k].logger] = NewLogger(Warn, "net", NoArg)
        /\ minimum = Info
        /\ LinesBy(sinks, k, "stdout") = 1
        /\ TheLine(sinks, k, "stdout").tag = "Warn@net"

\* C10: no step of a call (the call itself, the settling of its write and
\* of its promises) changes an instance or the global minimum, and no step
\* at all changes the prefix or the sink override of a constructed instance.
C10_CallsChangeNoConfiguration ==
    [][ /\ calls' # calls => (loggers' = loggers /\ minimum' = minimum)
        /\ \A i \in DOMAIN loggers :
             /\ i \in DOMAIN loggers'
             /\ loggers'[i]._prefix = loggers[i]._prefix
             /\ loggers'[i]._ostream = loggers[i]._ostream ]_vars

C10_Witness ==
    \E k \in DOMAIN calls :
        /\ calls[k].via = "log" /\ calls[k].arg = Error
        /\ calls[k].l = Error
        /\ loggers[calls[k].logger]._level = Warn
        /\ calls[k].write = "ok" /\ calls[k].logP = "fulfilled"

=============================================================================
